---- MODULE Spec2Model ----
(***************************************************************************)
(* A model of hamilton/function_modifiers/expanders.py: the node expanders *)
(* parameterize, extract_columns, extract_fields and                       *)
(* parameterize_extract_columns, run through the                           *)
(* protocol  construct -> validate(fn) -> expand_node(node, config, fn)    *)
(* -> invocation of the produced nodes' callables.                         *)
(*                                                                         *)
(* Strings are sequences of atoms (an atom is a brace or an identifier).   *)
(* An ordered dict (python dict) is a sequence of <<key, value>> pairs     *)
(* with distinct keys; a keyword-argument mapping, whose order the code    *)
(* never reads, is a TLA+ function.                                        *)
(***************************************************************************)
EXTENDS Integers, Sequences, FiniteSets, TLC

VARIABLES strategy, args, fn, self, phase, error, nodes, call, container, docRun, held

vars == <<strategy, args, fn, self, phase, error, nodes, call, container, docRun, held>>

(***************************************************************************)
(* Bounds of the model.                                                    *)
(***************************************************************************)
MaxParams == 2      \* parameters of the decorated function
MaxMapping == 2     \* entries of one output's dependency mapping
MaxOutputs == 2     \* outputs declared by one parameterize
MaxDocLen == 4      \* atoms of a docstring template
MaxColumns == 2     \* columns / fields declared by one extractor
MaxRecords == 2     \* records of one parameterize_extract_columns

(***************************************************************************)
(* Python values.                                                          *)
(***************************************************************************)
None == "None"

RESERVED_KWARG == "output_name"

\* dependencies.source(name) and dependencies.value(v)
source(r) == [kind |-> "UPSTREAM", source |-> r, value |-> None]

value(v) == [kind |-> "LITERAL", source |-> None, value |-> v]

\* A docstring, or the outcome of formatting one: None, a string, or a raise.
DocNone == [kind |-> "None", text |-> <<>>]

DocStr(s) == [kind |-> "str", text |-> s]

DocRaise(e) == [kind |-> e, text |-> <<>>]

(***************************************************************************)
(* Ordered dicts.                                                          *)
(***************************************************************************)
Range(s) == {s[i] : i \in DOMAIN s}

DictKeys(d) == {d[i][1] : i \in DOMAIN d}

\* d[k], for k a key of d
DictGet(d, k) == d[CHOOSE i \in DOMAIN d : d[i][1] = k][2]

\* d[k] = v: an existing key keeps its place, a new key goes last
DictSet(d, k, v) ==
    IF k \in DictKeys(d)
    THEN [i \in DOMAIN d |-> IF d[i][1] = k THEN <<k, v>> ELSE d[i]]
    ELSE Append(d, <<k, v>>)

\* dict comprehension {k: v for k, v in d.items() if keep(v)}
RECURSIVE DictFilter(_, _)
DictFilter(d, kind) ==
    IF d = <<>> THEN <<>>
    ELSE IF Head(d)[2].kind = kind
         THEN <<Head(d)>> \o DictFilter(Tail(d), kind)
         ELSE DictFilter(Tail(d), kind)

\* Sequences over S without repetition, of length lo..hi.
DupFreeSeqs(S, lo, hi) ==
    {s \in UNION {[1..n -> S] : n \in lo..hi} :
        \A i, j \in DOMAIN s : i # j => s[i] # s[j]}

\* Ordered dicts with keys in K and values in V, of 0..hi entries.
Dicts(K, V, lo, hi) ==
    UNION {{[i \in DOMAIN ks |-> <<ks[i], f[i]>>] : f \in [DOMAIN ks -> V]} :
            ks \in DupFreeSeqs(K, lo, hi)}

(***************************************************************************)
(* Errors and call outcomes.                                               *)
(***************************************************************************)
\* No exception.
NoError == [type |-> None, what |-> None, subject |-> <<>>, listed |-> {}]

\* An exception of class `type`; `what` is the fixed part of its message,
\* `subject` and `listed` the values the message is formatted with.
Err(type, what, subject, listed) ==
    [type |-> type, what |-> what, subject |-> subject, listed |-> listed]

\* The outcome of a call: a returned value or a raised exception.
Returned(v) == [raised |-> NoError, value |-> v]

Raised(e) == [raised |-> e, value |-> None]

IsOk(r) == r.raised.type = None

(***************************************************************************)
(* str.format_map with the IdentityDict of format_doc_string.              *)
(***************************************************************************)
Braces == {"{", "}"}

\* __missing__ returning the placeholder, braces included
IdentityDict_missing_braced(key) == <<"{">> \o key \o <<"}">>

\* __missing__ returning the placeholder with its braces escaped
IdentityDict_missing_escaped(key) == <<"{", "{">> \o key \o <<"}", "}">>

\* IdentityDict.__missing__
IdentityDict_missing(key) == key

\* IdentityDict[key]: the dict's entry, else __missing__(key). A field name
\* of several atoms is never a key of the dict.
IdentityDict_getitem(m, key) ==
    IF Len(key) = 1 /\ key[1] \in DOMAIN m THEN <<m[key[1]]>>
    ELSE IdentityDict_missing(key)

\* s \o (the outcome r of formatting the rest), a raise staying a raise
FormatCons(s, r) == IF r.kind = "str" THEN DocStr(s \o r.text) ELSE r

\* The index of the first brace of s at or after i, 0 when there is none.
RECURSIVE NextBrace(_, _)
NextBrace(s, i) ==
    IF i > Len(s) THEN 0
    ELSE IF s[i] \in Braces THEN i
    ELSE NextBrace(s, i + 1)

\* str.format_map(m) of the string s: "{{" and "}}" are escapes of a brace,
\* "{name}" is replaced by m[name], and a lone brace, an unclosed or nested
\* field and the positional field "{}" raise ValueError.
RECURSIVE format_map(_, _)
format_map(s, m) ==
    IF s = <<>> THEN DocStr(<<>>)
    ELSE IF Head(s) \notin Braces
    THEN FormatCons(<<Head(s)>>, format_map(Tail(s), m))
    ELSE IF Len(s) >= 2 /\ s[2] = Head(s)
    THEN FormatCons(<<Head(s)>>, format_map(SubSeq(s, 3, Len(s)), m))
    ELSE IF Head(s) = "}" THEN DocRaise("ValueError")
    ELSE LET close == NextBrace(s, 2)
         IN  IF close = 0 \/ close = 2 THEN DocRaise("ValueError")
             ELSE IF s[close] = "{" THEN DocRaise("ValueError")
             ELSE FormatCons(IdentityDict_getitem(m, SubSeq(s, 2, close - 1)),
                             format_map(SubSeq(s, close + 1, Len(s)), m))

(***************************************************************************)
(* The decorated function and its unexpanded node.                         *)
(*                                                                         *)
(* fn.params are the function's parameters in signature order, all of them *)
(* required keyword parameters; fn.doc is fn.__doc__; fn.returns is the    *)
(* return annotation; fn.output is the container the body returns.         *)
(***************************************************************************)
\* The declared type of parameter p: one type per parameter name.
TypeOf(p) == <<"type", p>>

\* fn(**kwargs): python binds the keywords to the parameters, and raises
\* TypeError when one is missing or unexpected. The returned value records
\* the arguments the body ran with and the container it returns.
CallFn(f, kwargs) ==
    IF DOMAIN kwargs = Range(f.params)
    THEN Returned([args |-> kwargs, table |-> f.output])
    ELSE Raised(Err("TypeError", "arguments", <<>>, DOMAIN kwargs))

\* node.Node.from_fn(fn): the node the expander receives.
BaseNode(f) ==
    [name |-> f.name,
     typ |-> f.returns,
     doc_string |-> f.doc,
     callabl |-> [code |-> "fn"],
     input_types |-> [i \in DOMAIN f.params |-> <<f.params[i], TypeOf(f.params[i])>>]]

(***************************************************************************)
(* class parameterize                                                      *)
(***************************************************************************)
\* isinstance(val, ParametrizedDependency)
IsDependency(val) == val.kind \in {"UPSTREAM", "LITERAL"}

\* {key: value[1] for key, value in parametrization.items()
\*  if isinstance(value, tuple)}
RECURSIVE SpecifiedDocstrings(_)
SpecifiedDocstrings(parametrization) ==
    IF parametrization = <<>> THEN <<>>
    ELSE IF Head(parametrization).doc.kind = "str"
    THEN <<<<Head(parametrization).name, Head(parametrization).doc.text>>>>
             \o SpecifiedDocstrings(Tail(parametrization))
    ELSE SpecifiedDocstrings(Tail(parametrization))

\* parameterize.__init__(**parametrization). A declaration d stands for the
\* keyword d.name = d.mapping, or d.name = (d.mapping, d.doc) when d.doc is a
\* string.
parameterize_init(parametrization) ==
    LET bad_values ==
            UNION {{d.mapping[j][2] : j \in {j \in DOMAIN d.mapping :
                                               ~IsDependency(d.mapping[j][2])}} :
                   d \in Range(parametrization)}
    IN  IF bad_values # {}
        THEN Raised(Err("InvalidDecoratorException", "must specify a dependency type",
                        <<>>, {v.value : v \in bad_values}))
        ELSE Returned(
            [parametrization |->
                [i \in DOMAIN parametrization |->
                    <<parametrization[i].name, parametrization[i].mapping>>],
             specified_docstrings |-> SpecifiedDocstrings(parametrization)])

\* The keyword arguments IdentityDict is constructed with, as a mapping:
\* {**upstream_dependencies, **literal_dependencies} of format_doc_string.
DocReplacements(parametrization) ==
    [p \in DictKeys(parametrization) |->
        IF DictGet(parametrization, p).kind = "UPSTREAM"
        THEN DictGet(parametrization, p).source
        ELSE DictGet(parametrization, p).value]

\* format_doc_string testing doc for None before it looks for an override
format_doc_string_none_first(slf, doc, output_name) ==
    IF doc.kind = "None" THEN DocNone
    ELSE IF output_name \in DictKeys(slf.specified_docstrings)
    THEN DocStr(DictGet(slf.specified_docstrings, output_name))
    ELSE LET parametrization == DictGet(slf.parametrization, output_name)
         IN  IF RESERVED_KWARG \in DictKeys(parametrization)
             THEN DocRaise("TypeError")
             ELSE format_map(doc.text,
                             (RESERVED_KWARG :> output_name)
                                 @@ DocReplacements(parametrization))

\* parameterize.format_doc_string(doc, output_name)
format_doc_string(slf, doc, output_name) ==
    IF output_name \in DictKeys(slf.specified_docstrings)
    THEN DocStr(DictGet(slf.specified_docstrings, output_name))
    ELSE IF doc.kind = "None" THEN DocNone
    ELSE LET parametrization == DictGet(slf.parametrization, output_name)
         IN  IF RESERVED_KWARG \in DictKeys(parametrization)
             THEN DocRaise("TypeError")  \* the keyword is given twice
             ELSE format_map(doc.text,
                             (RESERVED_KWARG :> output_name)
                                 @@ DocReplacements(parametrization))

\* The first raise among the outcomes rs, DocNone when none raises.
RECURSIVE FirstRaise(_)
FirstRaise(rs) ==
    IF rs = <<>> THEN DocNone
    ELSE IF Head(rs).kind \notin {"str", "None"} THEN Head(rs)
    ELSE FirstRaise(Tail(rs))

\* parameterize.validate(fn): the exception it ends with, NoError when it
\* returns.
parameterize_validate(slf, f) ==
    LET func_param_names == Range(f.params)
        raised == FirstRaise([i \in DOMAIN slf.parametrization |->
                      format_doc_string(slf, f.doc, slf.parametrization[i][1])])
        missing_parameters ==
            UNION {DictKeys(slf.parametrization[i][2]) : i \in DOMAIN slf.parametrization}
                \ func_param_names
    IN  IF raised.kind = "KeyError"
        THEN Err("InvalidDecoratorException", "docstring templating is incorrect", <<>>, {})
        ELSE IF raised.kind # "None"
        THEN Err(raised.kind, "format_doc_string", <<>>, {})
        ELSE IF RESERVED_KWARG \in func_param_names
        THEN Err("InvalidDecoratorException", "reserved", <<RESERVED_KWARG>>, {})
        ELSE IF missing_parameters # {}
        THEN Err("InvalidDecoratorException", "parameters don't appear in the function",
                 <<>>, missing_parameters)
        ELSE NoError

\* The loop with a literal-bound parameter kept as an input.
RECURSIVE new_input_types_keeping_literals(_, _, _, _)
new_input_types_keeping_literals(input_types, upstream_dependencies, literal_dependencies, acc) ==
    IF input_types = <<>> THEN acc
    ELSE LET param == Head(input_types)[1]
             val == Head(input_types)[2]
         IN  new_input_types_keeping_literals(Tail(input_types), upstream_dependencies,
                literal_dependencies,
                IF param \in DictKeys(upstream_dependencies)
                THEN DictSet(acc, DictGet(upstream_dependencies, param).source, val)
                ELSE DictSet(acc, param, val))

\* The loop of expand_node that builds new_input_types, run over the rest
\* `input_types` of node_.input_types with `acc` built so far.
RECURSIVE new_input_types(_, _, _, _)
new_input_types(input_types, upstream_dependencies, literal_dependencies, acc) ==
    IF input_types = <<>> THEN acc
    ELSE LET param == Head(input_types)[1]
             val == Head(input_types)[2]
         IN  new_input_types(Tail(input_types), upstream_dependencies, literal_dependencies,
                IF param \in DictKeys(upstream_dependencies)
                THEN DictSet(acc, DictGet(upstream_dependencies, param).source, val)
                ELSE IF param \notin DictKeys(literal_dependencies)
                THEN DictSet(acc, param, val)
                ELSE acc)

\* The node expand_node appends for one output.
ParameterizedNode(slf, node_, f, output_node) ==
    LET parametrization == DictGet(slf.parametrization, output_node)
        upstream_dependencies == DictFilter(parametrization, "UPSTREAM")
        literal_dependencies == DictFilter(parametrization, "LITERAL")
    IN  [name |-> output_node,
         typ |-> node_.typ,
         doc_string |-> format_doc_string(slf, f.doc, output_node),
         callabl |-> [code |-> "replacement_function",
                      upstream_dependencies |-> upstream_dependencies,
                      literal_dependencies |-> literal_dependencies,
                      keywords |-> [p \in DictKeys(literal_dependencies) |->
                                       DictGet(literal_dependencies, p).value],
                      inner |-> node_.callabl],
         input_types |-> new_input_types(node_.input_types, upstream_dependencies,
                                         literal_dependencies, <<>>)]

\* expand_node with replacement_function reading the loop's variables when
\* it is called: every node's callable has the dependencies of the last output.
parameterize_expand_node_late_binding(slf, node_, f) ==
    [i \in DOMAIN slf.parametrization |->
        [ParameterizedNode(slf, node_, f, slf.parametrization[i][1]) EXCEPT !.callabl =
            ParameterizedNode(slf, node_, f,
                slf.parametrization[Len(slf.parametrization)][1]).callabl]]

\* parameterize.expand_node(node_, config, fn)
parameterize_expand_node(slf, node_, f) ==
    [i \in DOMAIN slf.parametrization |->
        ParameterizedNode(slf, node_, f, slf.parametrization[i][1])]

\* kwargs.pop(k): the mapping without k
KwPop(kwargs, k) == [x \in DOMAIN kwargs \ {k} |-> kwargs[x]]

\* kwargs[k] = v
KwSet(kwargs, k, v) == [x \in DOMAIN kwargs \cup {k} |-> IF x = k THEN v ELSE kwargs[x]]

\* for dependency, replacement in upstream_dependencies.items():
\*     kwargs[dependency] = kwargs.pop(replacement.source)
\* run on the call outcome r, whose value is kwargs; pop raises KeyError.
RECURSIVE RenameUpstream(_, _)
RenameUpstream(upstream_dependencies, r) ==
    IF upstream_dependencies = <<>> \/ ~IsOk(r) THEN r
    ELSE LET dependency == Head(upstream_dependencies)[1]
             replacement == Head(upstream_dependencies)[2]
         IN  RenameUpstream(Tail(upstream_dependencies),
                IF replacement.source \notin DOMAIN r.value
                THEN Raised(Err("KeyError", "pop", <<replacement.source>>, {}))
                ELSE Returned(KwSet(KwPop(r.value, replacement.source), dependency,
                                    r.value[replacement.source])))

\* for dependency, replacement in literal_dependencies.items():
\*     kwargs[dependency] = replacement.value
RECURSIVE InjectLiterals(_, _)
InjectLiterals(literal_dependencies, kwargs) ==
    IF literal_dependencies = <<>> THEN kwargs
    ELSE InjectLiterals(Tail(literal_dependencies),
            KwSet(kwargs, Head(literal_dependencies)[1], Head(literal_dependencies)[2].value))

(***************************************************************************)
(* hamilton.registry: the dataframe capability provider. A table is an     *)
(* ordered dict from column label to column, a column a sequence of cells, *)
(* one per row. A label is the sequence of the strings it is made of: one  *)
(* string for a name, two for a tuple.                                     *)
(***************************************************************************)
Rows == 2

DataFrameTypes == {"DataFrame"}

\* registry.get_column_type_from_df_type(typ)
get_column_type_from_df_type(typ) ==
    IF typ \in DataFrameTypes THEN Returned("Series")
    ELSE Raised(Err("NotImplementedError", "no such dataframe type", <<typ>>, {}))

\* registry.fill_with_scalar(df, column_name, scalar_value): df[name] = scalar
fill_with_scalar(df, column_name, scalar_value) ==
    DictSet(df, column_name, [i \in 1..Rows |-> scalar_value])

\* registry.get_column(df, column_name)
get_column(df, column_name) ==
    IF column_name \in DictKeys(df) THEN Returned(DictGet(df, column_name))
    ELSE Raised(Err("KeyError", "get_column", column_name, {}))

(***************************************************************************)
(* class extract_columns. A declared column c is a string (c.isa = "str",  *)
(* c.items = <<name>>), a tuple (c.isa = "tuple", c.items = <<name, doc>>) *)
(* or a list (c.isa = "list").                                             *)
(***************************************************************************)
\* extract_columns.__init__(*columns, fill_with)
extract_columns_init(columns, fill_with) ==
    IF columns = <<>>
    THEN Raised(Err("InvalidDecoratorException", "empty arguments", <<>>, {}))
    ELSE IF columns[1].isa = "list"
    THEN Raised(Err("InvalidDecoratorException", "list passed in", <<>>, {}))
    ELSE Returned([columns |-> columns, fill_with |-> fill_with])

\* extract_columns.validate_return_type(fn)
validate_return_type(f) ==
    IF IsOk(get_column_type_from_df_type(f.returns)) THEN NoError
    ELSE Err("InvalidDecoratorException", "does not output a type we know about",
             <<f.returns>>, {})

\* for col in self.columns:
\*     if col not in df_generated: registry.fill_with_scalar(df_generated, col, fill_with)
\* col is the declared column as given, a tuple included; the assert that
\* follows holds of the column just set.
RECURSIVE FillColumns(_, _, _)
FillColumns(columns, fill_with, df_generated) ==
    IF columns = <<>> THEN df_generated
    ELSE FillColumns(Tail(columns), fill_with,
            IF Head(columns).items \notin DictKeys(df_generated)
            THEN fill_with_scalar(df_generated, Head(columns).items, fill_with)
            ELSE df_generated)

\* df_generator's body after fn returned the value generated
df_generator(columns, fill_with, generated) ==
    IF fill_with # None
    THEN [generated EXCEPT !.table = FillColumns(columns, fill_with, generated.table)]
    ELSE generated

\* extractor_fn without its check that the column is there
column_extractor_fn_unchecked(node_name, column_to_extract, kwargs) ==
    get_column(kwargs[node_name].table, column_to_extract)

\* extractor_fn(column_to_extract, **kwargs) of extract_columns
column_extractor_fn(node_name, column_to_extract, kwargs) ==
    IF node_name \notin DOMAIN kwargs
    THEN Raised(Err("KeyError", "kwargs", <<node_name>>, {}))
    ELSE LET df == kwargs[node_name].table
         IN  IF column_to_extract \notin DictKeys(df)
             THEN Raised(Err("InvalidDecoratorException", "No such column",
                             column_to_extract, DictKeys(df)))
             ELSE get_column(df, column_to_extract)

\* The node expand_node appends for one declared column.
ColumnNode(node_, series_type, declared) ==
    LET doc_string == IF declared.isa = "tuple" THEN DocStr(<<declared.items[2]>>)
                      ELSE node_.doc_string
        column == declared.items[1]
    IN  [name |-> column,
         typ |-> series_type,
         doc_string |-> doc_string,
         callabl |-> [code |-> "extractor_fn", node_name |-> node_.name,
                      column_to_extract |-> <<column>>],
         input_types |-> <<<<node_.name, node_.typ>>>>]

\* The documentation of the column nodes when doc_string is set to the base
\* documentation once, before the loop over the columns.
RECURSIVE StaleDocs(_, _)
StaleDocs(columns, doc_string) ==
    IF columns = <<>> THEN <<>>
    ELSE LET doc == IF Head(columns).isa = "tuple" THEN DocStr(<<Head(columns).items[2]>>)
                    ELSE doc_string
         IN  <<doc>> \o StaleDocs(Tail(columns), doc)

\* expand_node with doc_string not reset in the loop
extract_columns_expand_node_stale_doc(slf, node_) ==
    <<[node_ EXCEPT !.callabl = [code |-> "df_generator", columns |-> slf.columns,
                                 fill_with |-> slf.fill_with, inner |-> node_.callabl]]>>
    \o [i \in DOMAIN slf.columns |->
            [ColumnNode(node_, get_column_type_from_df_type(node_.typ).value, slf.columns[i])
                EXCEPT !.doc_string = StaleDocs(slf.columns, node_.doc_string)[i]]]

\* extract_columns.expand_node(node_, config, fn)
extract_columns_expand_node(slf, node_) ==
    <<[node_ EXCEPT !.callabl = [code |-> "df_generator", columns |-> slf.columns,
                                 fill_with |-> slf.fill_with, inner |-> node_.callabl]]>>
    \o [i \in DOMAIN slf.columns |->
            ColumnNode(node_, get_column_type_from_df_type(node_.typ).value, slf.columns[i])]

(***************************************************************************)
(* class extract_fields. fields is an ordered dict from field name (a      *)
(* label of one string) to the field's declared type.                      *)
(***************************************************************************)
PyTypes == {"int", "str", "dict", "DataFrame", "Series"}

\* The return annotations typing_inspect finds generic, with their origin.
GenericOrigin == ("Dict[str, int]" :> "dict") @@ ("List[int]" :> "list")

\* extract_fields.__init__(fields, fill_with), for fields a dict
extract_fields_init(fields, fill_with) ==
    LET errors == {i \in DOMAIN fields : Len(fields[i][1]) # 1 \/ fields[i][2] \notin PyTypes}
    IN  IF fields = <<>>
        THEN Raised(Err("InvalidDecoratorException", "an empty dict, or no dict", <<>>, {}))
        ELSE IF errors # {}
        THEN Raised(Err("InvalidDecoratorException", "pass in a dict of string to types",
                        <<>>, {fields[i][2] : i \in errors}))
        ELSE Returned([fields |-> fields, fill_with |-> fill_with])

\* extract_fields.validate(fn)
extract_fields_validate(f) ==
    LET output_type == f.returns
        bad == Err("InvalidDecoratorException", "output type must be a dict",
                   <<output_type>>, {})
    IN  IF output_type \in DOMAIN GenericOrigin
        THEN IF GenericOrigin[output_type] = "dict" THEN NoError ELSE bad
        ELSE IF output_type = "dict" THEN NoError
        ELSE bad

\* for field in self.fields:
\*     if field not in dict_generated: dict_generated[field] = self.fill_with
RECURSIVE FillFields(_, _, _)
FillFields(fields, fill_with, dict_generated) ==
    IF fields = <<>> THEN dict_generated
    ELSE FillFields(Tail(fields), fill_with,
            IF Head(fields)[1] \notin DictKeys(dict_generated)
            THEN DictSet(dict_generated, Head(fields)[1], fill_with)
            ELSE dict_generated)

\* dict_generator's body after fn returned the value generated
dict_generator(fields, fill_with, generated) ==
    IF fill_with # None
    THEN [generated EXCEPT !.table = FillFields(fields, fill_with, generated.table)]
    ELSE generated

\* extractor_fn(field_to_extract, **kwargs) of extract_fields
field_extractor_fn(node_name, field_to_extract, kwargs) ==
    IF node_name \notin DOMAIN kwargs
    THEN Raised(Err("KeyError", "kwargs", <<node_name>>, {}))
    ELSE LET dt == kwargs[node_name].table
         IN  IF field_to_extract \notin DictKeys(dt)
             THEN Raised(Err("InvalidDecoratorException", "No such field",
                             field_to_extract, DictKeys(dt)))
             ELSE Returned(DictGet(dt, field_to_extract))

\* The node expand_node appends for one declared field.
FieldNode(node_, field, field_type) ==
    [name |-> field[1],
     typ |-> field_type,
     doc_string |-> node_.doc_string,
     callabl |-> [code |-> "field_extractor_fn", node_name |-> node_.name,
                  field_to_extract |-> field],
     input_types |-> <<<<node_.name, "dict">>>>]

\* extract_fields.expand_node(node_, config, fn)
extract_fields_expand_node(slf, node_) ==
    <<[node_ EXCEPT !.callabl = [code |-> "dict_generator", fields |-> slf.fields,
                                 fill_with |-> slf.fill_with, inner |-> node_.callabl]]>>
    \o [i \in DOMAIN slf.fields |-> FieldNode(node_, slf.fields[i][1], slf.fields[i][2])]

(***************************************************************************)
(* class parameterize_extract_columns. extract_config is a sequence of     *)
(* ParameterizedExtract records [outputs, input_mapping]; record i of the  *)
(* code (counted from 0) is extract_config[i + 1].                         *)
(***************************************************************************)
\* parameterize_extract_columns.__init__(*extract_config, reassign_columns)
parameterize_extract_columns_init(extract_config, reassign_columns) ==
    Returned([extract_config |-> extract_config, reassign_columns |-> reassign_columns])

\* The intermediate node's name without its positional suffix
IntermediateName_unsuffixed(node_, i) == node_.name

\* node_.name + f"__{i}"
IntermediateName(node_, i) == node_.name \o "__" \o ToString(i)

\* wrapper_fn's body after fn returned df_out: df_out.columns = _output_columns.
\* The table keeps its columns in order under the new labels; a table with
\* another number of columns refuses the labels (pandas raises ValueError).
wrapper_fn(output_columns, df_out) ==
    IF Len(output_columns) # Len(df_out.table)
    THEN Raised(Err("ValueError", "Length mismatch", <<>>, {}))
    ELSE Returned([df_out EXCEPT !.table =
                      [j \in DOMAIN df_out.table |->
                          <<<<output_columns[j]>>, df_out.table[j][2]>>]])

\* The body of expand_node's loop for record i: the nodes it extends
\* output_nodes with, or the exception one of its calls raises. new_node's
\* callable is wrapper_fn whatever reassign_columns is; fn_to_call, which is
\* wrapper_fn or fn, reaches parameterize.expand_node as its fn, which reads
\* its __doc__ only, and functools.wraps gives wrapper_fn the __doc__ of fn.
RecordNodes(slf, node_, f, i) ==
    LET parameterization == slf.extract_config[i + 1]
        new_node == [node_ EXCEPT !.callabl =
                        [code |-> "wrapper_fn",
                         output_columns |-> parameterization.outputs,
                         inner |-> node_.callabl]]
        fn_to_call == f
        parameterization_decorator ==
            parameterize_init(<<[name |-> IntermediateName(node_, i),
                                 mapping |-> parameterization.input_mapping,
                                 doc |-> DocNone]>>)
        parameterized_node ==
            parameterize_expand_node(parameterization_decorator.value, new_node, fn_to_call)[1]
        extract_columns_decorator ==
            extract_columns_init([j \in DOMAIN parameterization.outputs |->
                                     [isa |-> "str", items |-> <<parameterization.outputs[j]>>]],
                                 None)
    IN  IF ~IsOk(parameterization_decorator) THEN parameterization_decorator
        ELSE IF parameterized_node.doc_string.kind \notin {"str", "None"}
        THEN Raised(Err(parameterized_node.doc_string.kind, "format_doc_string", <<>>, {}))
        ELSE IF ~IsOk(extract_columns_decorator) THEN extract_columns_decorator
        ELSE Returned(extract_columns_expand_node(extract_columns_decorator.value,
                                                  parameterized_node))

\* for i, parameterization in enumerate(self.extract_config): from record i
\* on, with the output_nodes gathered so far.
RECURSIVE ExpandRecords(_, _, _, _, _)
ExpandRecords(slf, node_, f, i, output_nodes) ==
    IF i >= Len(slf.extract_config) THEN Returned(output_nodes)
    ELSE LET extended == RecordNodes(slf, node_, f, i)
         IN  IF ~IsOk(extended) THEN extended
             ELSE ExpandRecords(slf, node_, f, i + 1, output_nodes \o extended.value)

\* parameterize_extract_columns.expand_node(node_, config, fn)
parameterize_extract_columns_expand_node(slf, node_, f) ==
    ExpandRecords(slf, node_, f, 0, <<>>)

(***************************************************************************)
(* Invocation of a produced callable.                                      *)
(***************************************************************************)
\* replacement_function(**kwargs) up to its call of node_.callable: the
\* keyword arguments that call is made with.
replacement_function(callabl, kwargs) ==
    LET renamed == RenameUpstream(callabl.upstream_dependencies, Returned(kwargs))
    IN  IF ~IsOk(renamed) THEN renamed
        ELSE Returned(InjectLiterals(callabl.literal_dependencies, renamed.value))

\* callabl(**kwargs) for a callable built by the expanders. A functools
\* partial's keywords are overlaid by the call's before the body runs.
RECURSIVE CallCallable(_, _, _)
CallCallable(callabl, f, kwargs) ==
    CASE callabl.code = "fn" -> CallFn(f, kwargs)
      [] callabl.code = "replacement_function" ->
            LET rewritten == replacement_function(callabl, kwargs @@ callabl.keywords)
            IN  IF ~IsOk(rewritten) THEN rewritten
                ELSE CallCallable(callabl.inner, f, rewritten.value)
      [] callabl.code = "df_generator" ->
            LET generated == CallCallable(callabl.inner, f, kwargs)
            IN  IF ~IsOk(generated) THEN generated
                ELSE Returned(df_generator(callabl.columns, callabl.fill_with,
                                           generated.value))
      [] callabl.code = "dict_generator" ->
            LET generated == CallCallable(callabl.inner, f, kwargs)
            IN  IF ~IsOk(generated) THEN generated
                ELSE Returned(dict_generator(callabl.fields, callabl.fill_with,
                                             generated.value))
      [] callabl.code = "wrapper_fn" ->
            LET df_out == CallCallable(callabl.inner, f, kwargs)
            IN  IF ~IsOk(df_out) THEN df_out
                ELSE wrapper_fn(callabl.output_columns, df_out.value)
      [] callabl.code = "extractor_fn" ->
            column_extractor_fn(callabl.node_name, callabl.column_to_extract, kwargs)
      [] callabl.code = "field_extractor_fn" ->
            field_extractor_fn(callabl.node_name, callabl.field_to_extract, kwargs)

(***************************************************************************)
(* The decorations the model runs: a strategy, its constructor arguments   *)
(* and the function it decorates.                                          *)
(***************************************************************************)
ParamNames == {"a", "b", "c"}

\* The values an executor passes for a node's inputs.
Values == {"10", "20"}

\* A mapping value that is no Dependency.
Raw == [kind |-> "RAW", source |-> None, value |-> "raw"]

DocAtoms == {"{", "}", "a", "k"}

OutputNames == <<"out1", "out2", "out3", "out4">>

NoTable == <<>>

Function(params, doc, returns, output) ==
    [name |-> "f", params |-> params, doc |-> doc, returns |-> returns, output |-> output]

Declaration(name, mapping, doc) == [name |-> name, mapping |-> mapping, doc |-> doc]

ParamDoc == DocStr(<<"{", "a", "}", "{", RESERVED_KWARG, "}">>)

Override == DocStr(<<"{", "a", "}">>)

Overrides == {DocNone, Override}

\* The signatures of the decorated function.
Signatures == DupFreeSeqs(ParamNames, 0, MaxParams)

\* The signatures that declare the reserved keyword.
ReservedSignatures == {<<RESERVED_KWARG>>, <<"a", RESERVED_KWARG>>}

\* The dependency mappings of an output: references to the names of
\* parameters, and a literal.
OutputMappings == Dicts(ParamNames, {source("a"), source("b"), value("1")}, 0, MaxMapping)

\* Mappings that bind the reserved keyword, reference it, or hold a value
\* that is no dependency.
OddMappings ==
    {<<>>,
     <<<<RESERVED_KWARG, value("1")>>>>,
     <<<<"a", source(RESERVED_KWARG)>>>>,
     <<<<"a", Raw>>>>,
     <<<<"a", value("1")>>, <<"b", Raw>>>>}

\* The mappings of one output among several: a binds at most the parameter a
\* to a reference outside the signature or to one of two literals.
SmallMappings == Dicts({"a"}, {source("n"), value("1"), value("2")}, 0, 1)

\* The declarations of several outputs.
ManyOutputs ==
    UNION {{[i \in 1..n |-> Declaration(OutputNames[i], ms[i], os[i])] :
                ms \in [1..n -> SmallMappings], os \in [1..n -> Overrides]} :
           n \in 2..MaxOutputs}

\* The docstring templates.
Templates == UNION {[1..n -> DocAtoms] : n \in 0..MaxDocLen}

TemplateMappings ==
    {<<>>, <<<<"a", source("b")>>>>, <<<<"a", value("1")>>>>,
     <<<<RESERVED_KWARG, value("1")>>>>}

ColumnNames == {"c1", "c2"}

\* The cells of the column the function returns under the name c.
ColumnData(c) == [i \in 1..Rows |-> IF c = "c1" THEN "x1" ELSE "x2"]

ColumnDoc(c) == IF c = "c1" THEN "doc1" ELSE "doc2"

StrColumn(c) == [isa |-> "str", items |-> <<c>>]

TupleColumn(c) == [isa |-> "tuple", items |-> <<c, ColumnDoc(c)>>]

ListColumn(c) == [isa |-> "list", items |-> <<c>>]

\* The unset fill value, the falsy 0 and a truthy one.
FillValues == {None, "0", "7"}

BaseDoc == DocStr(<<"a">>)

\* The entries of d whose label names one of `present`.
RECURSIVE Restrict(_, _)
Restrict(d, present) ==
    IF d = <<>> THEN <<>>
    ELSE IF Head(d)[1][1] \in present THEN <<Head(d)>> \o Restrict(Tail(d), present)
    ELSE Restrict(Tail(d), present)

\* The tables a function may return: any of the named columns, in order.
Tables ==
    {Restrict(<<<<<<"c1">>, ColumnData("c1")>>, <<<<"c2">>, ColumnData("c2")>>>>, present) :
        present \in SUBSET ColumnNames}

\* The dicts a function may return.
Mappings ==
    {Restrict(<<<<<<"c1">>, "v1">>, <<<<"c2">>, "v2">>>>, present) :
        present \in SUBSET ColumnNames}

\* The columns declared to extract_columns.
ColumnDeclarations ==
    UNION {[1..n -> {StrColumn(c) : c \in ColumnNames}
                        \cup {TupleColumn(c) : c \in ColumnNames}] : n \in 0..MaxColumns}
        \cup {<<ListColumn("c1")>>}

\* The fields declared to extract_fields, one of them with no type.
FieldDeclarations ==
    Dicts({<<c>> : c \in ColumnNames}, {"int", "str"}, 0, MaxColumns)
        \cup {<<<<<<"c1">>, "1.5">>>>}

\* ParameterizedExtract(outputs, input_mapping)
ParameterizedExtract(outputs, input_mapping) ==
    [outputs |-> outputs, input_mapping |-> input_mapping]

\* The records given to parameterize_extract_columns, for a function f(a)
\* returning a table: literals and a reference for a, an output named as
\* the first intermediate node, a target z that f does not have, a value
\* that is no dependency, no output at all, and a single output.
Records ==
    {ParameterizedExtract(<<"o1", "o2">>, <<<<"a", value("1")>>>>),
     ParameterizedExtract(<<"o3", "o4">>, <<<<"a", value("2")>>>>),
     ParameterizedExtract(<<"o1", "o2">>, <<<<"a", source("n")>>>>),
     ParameterizedExtract(<<"o3", "f__0">>, <<>>),
     ParameterizedExtract(<<"o1">>, <<<<"z", value("1")>>>>),
     ParameterizedExtract(<<"o1", "o2">>, <<<<"a", Raw>>>>),
     ParameterizedExtract(<<>>, <<<<"a", value("1")>>>>),
     ParameterizedExtract(<<"o1">>, <<<<"a", value("1")>>>>)}

ExtractConfigs == UNION {[1..n -> Records] : n \in 1..MaxRecords}

\* The tables the function decorated by parameterize_extract_columns returns.
RecordTables ==
    {<<<<<<"c1">>, ColumnData("c1")>>, <<<<"c2">>, ColumnData("c2")>>>>,
     <<<<<<"c1">>, ColumnData("c1")>>>>}

\* A docstring that format_map refuses.
BadDoc == DocStr(<<"{">>)

(***************************************************************************)
(* The protocol: construct, validate(fn), expand_node, then invocations.   *)
(***************************************************************************)
NoCall == [node |-> 0, kwargs |-> <<>>, result |-> Returned(None)]

NoDocRun == [output |-> None, first |-> DocNone, second |-> DocNone]

\* The object the decorated function returns: `shared` when every call
\* returns the one object the function holds (a module-level table, a cache),
\* a new object per call otherwise; `table` is what the holder reads in it.
Held(shared, table) == [shared |-> shared, table |-> table]

\* df_generator, dict_generator and wrapper_fn change the object fn returned
\* in place (fill_with_scalar, dict_generated[field] = ..., df_out.columns =
\* ...): the holder of a shared object reads the changes once the call ended.
Mutated(h, result) ==
    IF h.shared /\ IsOk(result) THEN [h EXCEPT !.table = result.value.table] ELSE h

\* parameterize of one output with any mapping, on any signature.
InitOneOutput ==
    \E m \in OutputMappings, o \in Overrides, ps \in Signatures, d \in {DocNone, ParamDoc} :
        /\ strategy = "parameterize"
        /\ args = <<Declaration(OutputNames[1], m, o)>>
        /\ fn = Function(ps, d, "ret", NoTable)

\* parameterize around the reserved keyword and values that are no dependency.
InitOdd ==
    \E m \in OddMappings, o \in Overrides, d \in {DocNone, ParamDoc},
       ps \in ReservedSignatures \cup {<<"a", "b">>} :
        /\ strategy = "parameterize"
        /\ args = <<Declaration(OutputNames[1], m, o)>>
        /\ fn = Function(ps, d, "ret", NoTable)

\* parameterize of several outputs.
InitManyOutputs ==
    \E ds \in ManyOutputs, ps \in {<<"a">>, <<"a", "b">>}, d \in {DocNone, ParamDoc} :
        /\ strategy = "parameterize"
        /\ args = ds
        /\ fn = Function(ps, d, "ret", NoTable)

\* parameterize of one output on f(a), with any docstring template.
InitTemplates ==
    \E m \in TemplateMappings, d \in Templates :
        /\ strategy = "parameterize"
        /\ args = <<Declaration(OutputNames[1], m, DocNone)>>
        /\ fn = Function(<<"a">>, DocStr(d), "ret", NoTable)

InitExtractColumns ==
    \E cs \in ColumnDeclarations, fw \in FillValues, rt \in {"DataFrame", "int"},
       t \in Tables :
        /\ strategy = "extract_columns"
        /\ args = [columns |-> cs, fill_with |-> fw]
        /\ fn = Function(<<>>, BaseDoc, rt, t)

InitExtractFields ==
    \E fs \in FieldDeclarations, fw \in FillValues,
       rt \in {"dict", "Dict[str, int]", "List[int]", "int"}, t \in Mappings :
        /\ strategy = "extract_fields"
        /\ args = [fields |-> fs, fill_with |-> fw]
        /\ fn = Function(<<>>, BaseDoc, rt, t)

InitExtractRecords ==
    \E cfg \in ExtractConfigs, reassign \in BOOLEAN, rt \in {"DataFrame", "int"},
       t \in RecordTables, d \in {DocNone, BadDoc} :
        /\ strategy = "parameterize_extract_columns"
        /\ args = [extract_config |-> cfg, reassign_columns |-> reassign]
        /\ fn = Function(<<"a">>, d, rt, t)

Init ==
    /\ \/ InitOneOutput
       \/ InitOdd
       \/ InitManyOutputs
       \/ InitTemplates
       \/ InitExtractColumns
       \/ InitExtractFields
       \/ InitExtractRecords
    /\ self = None
    /\ phase = "declared"
    /\ error = NoError
    /\ nodes = <<>>
    /\ call = NoCall
    /\ container = None
    /\ docRun = NoDocRun
    /\ \E shared \in (IF strategy = "parameterize" THEN {FALSE} ELSE BOOLEAN) :
            held = Held(shared, fn.output)

\* The strategy's __init__ on the decorator's arguments.
Constructed ==
    CASE strategy = "parameterize" -> parameterize_init(args)
      [] strategy = "extract_columns" -> extract_columns_init(args.columns, args.fill_with)
      [] strategy = "extract_fields" -> extract_fields_init(args.fields, args.fill_with)
      [] strategy = "parameterize_extract_columns" ->
            parameterize_extract_columns_init(args.extract_config, args.reassign_columns)

\* The decorator is constructed: a raise ends the decoration.
Construct ==
    /\ phase = "declared"
    /\ IF IsOk(Constructed)
       THEN /\ self' = Constructed.value
            /\ phase' = "constructed"
            /\ error' = NoError
       ELSE /\ self' = self
            /\ phase' = "failed"
            /\ error' = Constructed.raised
    /\ UNCHANGED <<strategy, args, fn, nodes, call, container, docRun, held>>

\* The strategy's validate(fn): the exception it raises, NoError for none.
Validated ==
    CASE strategy = "parameterize" -> parameterize_validate(self, fn)
      [] strategy = "extract_columns" -> validate_return_type(fn)
      [] strategy = "extract_fields" -> extract_fields_validate(fn)
      [] strategy = "parameterize_extract_columns" -> validate_return_type(fn)

\* The graph builder calls validate(fn): a raise ends the decoration.
Validate ==
    /\ phase = "constructed"
    /\ error' = Validated
    /\ phase' = IF Validated = NoError THEN "validated" ELSE "failed"
    /\ UNCHANGED <<strategy, args, fn, self, nodes, call, container, docRun, held>>

\* The strategy's expand_node(node_, config, fn).
Expanded ==
    CASE strategy = "parameterize" -> parameterize_expand_node(self, BaseNode(fn), fn)
      [] strategy = "extract_columns" -> extract_columns_expand_node(self, BaseNode(fn))
      [] strategy = "extract_fields" -> extract_fields_expand_node(self, BaseNode(fn))

\* expand_node's outcome: the nodes it returns or the exception it raises.
ExpandOutcome ==
    IF strategy = "parameterize_extract_columns"
    THEN parameterize_extract_columns_expand_node(self, BaseNode(fn), fn)
    ELSE Returned(Expanded)

\* The graph builder calls expand_node after validate returned: the calls of
\* format_doc_string and of the provider's column type that expand_node makes
\* are those validate made, and do not raise.
\* parameterize_extract_columns constructs its parameterize and
\* extract_columns here, formats the docstring here for the first time, and
\* a raise of theirs leaves expand_node.
Expand ==
    /\ phase = "validated"
    /\ IF IsOk(ExpandOutcome)
       THEN /\ nodes' = ExpandOutcome.value
            /\ phase' = "expanded"
            /\ error' = error
       ELSE /\ nodes' = nodes
            /\ phase' = "expand_failed"
            /\ error' = ExpandOutcome.raised
    /\ UNCHANGED <<strategy, args, fn, self, call, container, docRun, held>>

\* The executor invokes a node produced by parameterize, with a value for
\* each of the node's inputs.
InvokeParameterized ==
    /\ phase = "expanded"
    /\ strategy = "parameterize"
    /\ \E k \in DOMAIN nodes :
        \E kwargs \in [DictKeys(nodes[k].input_types) -> Values] :
            call' = [node |-> k, kwargs |-> kwargs,
                     result |-> CallCallable(nodes[k].callabl, fn, kwargs)]
    /\ phase' = "invoked"
    /\ UNCHANGED <<strategy, args, fn, self, error, nodes, container, docRun, held>>

\* A caller invokes a node produced by parameterize with a value for each of
\* the node's inputs and one more, under the name of a parameter that the
\* node's output binds to a literal.
InvokeWithLiteralName ==
    /\ phase = "expanded"
    /\ strategy = "parameterize"
    /\ \E k \in DOMAIN nodes :
        \E p \in DictKeys(nodes[k].callabl.literal_dependencies) :
            \E kwargs \in [DictKeys(nodes[k].input_types) \cup {p} -> Values] :
                call' = [node |-> k, kwargs |-> kwargs,
                         result |-> CallCallable(nodes[k].callabl, fn, kwargs)]
    /\ phase' = "invoked_over"
    /\ UNCHANGED <<strategy, args, fn, self, error, nodes, container, docRun, held>>

\* The executor invokes the base node of an extractor: the node of the
\* decorated function's own name.
RunBase ==
    /\ phase = "expanded"
    /\ strategy \in {"extract_columns", "extract_fields"}
    /\ LET result == CallCallable(nodes[1].callabl, fn, <<>>)
       IN  /\ call' = [node |-> 1, kwargs |-> <<>>, result |-> result]
           /\ container' = result.value
           /\ held' = Mutated(held, result)
           /\ phase' = IF IsOk(result) THEN "ran" ELSE "failed"
    /\ UNCHANGED <<strategy, args, fn, self, error, nodes, docRun>>

\* The executor invokes a column or field node with the base node's result
\* under the base node's name.
Extract ==
    /\ phase = "ran"
    /\ strategy \in {"extract_columns", "extract_fields"}
    /\ \E k \in DOMAIN nodes \ {1} :
        LET kwargs == nodes[1].name :> container
        IN  call' = [node |-> k, kwargs |-> kwargs,
                     result |-> CallCallable(nodes[k].callabl, fn, kwargs)]
    /\ phase' = "extracted"
    /\ UNCHANGED <<strategy, args, fn, self, error, nodes, container, docRun, held>>

\* The intermediate nodes among those parameterize_extract_columns returned.
Intermediates == {k \in DOMAIN nodes : nodes[k].callabl.code = "df_generator"}

\* The executor invokes the intermediate node of a record, with a value for
\* each of its inputs.
RunRecord ==
    /\ phase = "expanded"
    /\ strategy = "parameterize_extract_columns"
    /\ \E k \in Intermediates :
        \E kwargs \in [DictKeys(nodes[k].input_types) -> Values] :
            LET result == CallCallable(nodes[k].callabl, fn, kwargs)
            IN  /\ call' = [node |-> k, kwargs |-> kwargs, result |-> result]
                /\ container' = result.value
                /\ held' = Mutated(held, result)
                /\ phase' = IF IsOk(result) THEN "ran" ELSE "failed"
    /\ UNCHANGED <<strategy, args, fn, self, error, nodes, docRun>>

\* The executor invokes a column node whose input is the intermediate node
\* that ran, with that node's result under its name.
ExtractRecord ==
    /\ phase = "ran"
    /\ strategy = "parameterize_extract_columns"
    /\ \E k \in DOMAIN nodes \ Intermediates :
        /\ nodes[k].callabl.node_name = nodes[call.node].name
        /\ LET kwargs == nodes[call.node].name :> container
           IN  call' = [node |-> k, kwargs |-> kwargs,
                        result |-> CallCallable(nodes[k].callabl, fn, kwargs)]
    /\ phase' = "extracted"
    /\ UNCHANGED <<strategy, args, fn, self, error, nodes, container, docRun, held>>

\* format_doc_string(fn.__doc__, output_name) for a declared output.
FormatDoc ==
    /\ phase = "constructed"
    /\ strategy = "parameterize"
    /\ \E i \in DOMAIN self.parametrization :
        LET output_name == self.parametrization[i][1]
        IN  docRun' = [output |-> output_name,
                       first |-> format_doc_string(self, fn.doc, output_name),
                       second |-> DocNone]
    /\ phase' = "formatted"
    /\ UNCHANGED <<strategy, args, fn, self, error, nodes, call, container, held>>

\* format_doc_string applied to the string (or None) it returned.
FormatAgain ==
    /\ phase = "formatted"
    /\ docRun.first.kind \in {"str", "None"}
    /\ docRun' = [docRun EXCEPT
                    !.second = format_doc_string(self, docRun.first, docRun.output)]
    /\ phase' = "formatted2"
    /\ UNCHANGED <<strategy, args, fn, self, error, nodes, call, container, held>>

Next ==
    \/ Construct
    \/ Validate
    \/ Expand
    \/ InvokeParameterized
    \/ InvokeWithLiteralName
    \/ RunBase
    \/ Extract
    \/ RunRecord
    \/ ExtractRecord
    \/ FormatDoc
    \/ FormatAgain

Spec == Init /\ [][Next]_vars

(***************************************************************************)
(* Properties of parameterize.                                             *)
(***************************************************************************)
\* The dependency mapping of the output that node k was produced for.
MappingOf(k) == DictGet(self.parametrization, nodes[k].name)

UpstreamOf(k) == DictFilter(MappingOf(k), "UPSTREAM")

LiteralOf(k) == DictFilter(MappingOf(k), "LITERAL")

\* The parameters of fn that output k leaves untouched.
UntouchedOf(k) == Range(fn.params) \ DictKeys(MappingOf(k))

\* The arguments of the direct call of fn that an invocation of node k with
\* kwargs stands for: a reference-bound parameter takes the value given under
\* the name it references, a literal-bound one its literal, any other
\* parameter the value given under its own name.
DirectArguments(k, kwargs) ==
    [p \in Range(fn.params) |->
        IF p \in DictKeys(UpstreamOf(k)) THEN kwargs[DictGet(UpstreamOf(k), p).source]
        ELSE IF p \in DictKeys(LiteralOf(k)) THEN DictGet(LiteralOf(k), p).value
        ELSE kwargs[p]]

\* C1: renaming round trip. Invoking a node produced by parameterize with the
\* values keyed by the referenced names returns what fn returns when called
\* directly with those values under the original parameter names and the
\* literals under theirs.
C1_RenamingRoundTrip ==
    (strategy = "parameterize" /\ phase = "invoked") =>
        /\ IsOk(call.result)
        /\ call.result.value.args = DirectArguments(call.node, call.kwargs)

\* C2 as claimed: one node per declared output, named by it, in declaration
\* order, and no node's input-type mapping has a key equal to the name of a
\* parameter its output binds to a literal.
C2_NoLiteralKey ==
    (strategy = "parameterize" /\ phase \in {"expanded", "invoked"}) =>
        /\ Len(nodes) = Len(args)
        /\ \A k \in DOMAIN nodes :
            /\ nodes[k].name = args[k].name
            /\ DictKeys(LiteralOf(k)) \cap DictKeys(nodes[k].input_types) = {}

\* C2 as amended: one node per declared output, named by it, in declaration
\* order, and a key of a node's input-type mapping equals the name of a
\* literal-bound parameter only when it is the name that one of the output's
\* reference-bound parameters references.
C2_NoLiteralContribution ==
    (strategy = "parameterize" /\ phase \in {"expanded", "invoked"}) =>
        /\ Len(nodes) = Len(args)
        /\ \A k \in DOMAIN nodes :
            /\ nodes[k].name = args[k].name
            /\ \A p \in DictKeys(LiteralOf(k)) \cap DictKeys(nodes[k].input_types) :
                \E q \in DictKeys(UpstreamOf(k)) \cap Range(fn.params) :
                    DictGet(UpstreamOf(k), q).source = p

\* Several outputs were expanded, one of them binding a parameter of fn to a
\* literal.
C2_Witness ==
    /\ strategy = "parameterize"
    /\ phase = "expanded"
    /\ Len(nodes) >= 2
    /\ \E k \in DOMAIN nodes : DictKeys(LiteralOf(k)) \cap Range(fn.params) # {}

\* C3: the input-type mapping of a produced node is exactly an entry r with
\* p's declared type for each reference-bound parameter p -> source(r), and
\* an entry q with q's declared type for each untouched parameter q.
C3_InputTypes ==
    (strategy = "parameterize" /\ phase \in {"expanded", "invoked"}) =>
        \A k \in DOMAIN nodes :
            LET types == nodes[k].input_types
                bound == DictKeys(UpstreamOf(k)) \cap Range(fn.params)
            IN  /\ \A p \in bound :
                    /\ DictGet(UpstreamOf(k), p).source \in DictKeys(types)
                    /\ DictGet(types, DictGet(UpstreamOf(k), p).source) = TypeOf(p)
                /\ \A q \in UntouchedOf(k) :
                    /\ q \in DictKeys(types)
                    /\ DictGet(types, q) = TypeOf(q)
                /\ DictKeys(types) =
                    {DictGet(UpstreamOf(k), p).source : p \in bound} \cup UntouchedOf(k)

(***************************************************************************)
(* Properties of extract_columns and extract_fields.                       *)
(***************************************************************************)
\* The label of the column or field that the invoked node extracts.
Extracted == <<nodes[call.node].name>>

\* C4: with a fill value configured, extracting a declared column, however
\* declared, from the base node's result succeeds: a column absent from the
\* function's table holds the fill value in every row, a column present in it
\* holds the function's cells.
C4_FillAbsent ==
    (strategy = "extract_columns" /\ phase = "extracted" /\ self.fill_with # None) =>
        /\ IsOk(call.result)
        /\ call.result.value =
            IF Extracted \in DictKeys(fn.output) THEN DictGet(fn.output, Extracted)
            ELSE [i \in 1..Rows |-> self.fill_with]

\* The fixed part of the extraction error's message.
NoSuch == IF strategy = "extract_fields" THEN "No such field" ELSE "No such column"

\* The fill value of the extractor whose nodes were produced: the records of
\* parameterize_extract_columns are extracted by extract_columns(*outputs),
\* which has none.
FillWith == IF strategy = "parameterize_extract_columns" THEN None ELSE self.fill_with

\* C5: with no fill value, the extractor node of a declared column or field
\* absent from the container the base node produced raises the extraction
\* error, which names the column and lists the container's columns, and the
\* extractor of one present returns the container's value for it; nothing
\* before the extractor's invocation raises the extraction error.
C5_AbsentRaises ==
    /\ error.what \notin {"No such column", "No such field"}
    /\ phase = "ran" => IsOk(call.result)
    /\ (phase = "extracted" /\ FillWith = None) =>
        IF Extracted \in DictKeys(container.table)
        THEN /\ IsOk(call.result)
             /\ call.result.value = DictGet(container.table, Extracted)
        ELSE call.result.raised =
                Err("InvalidDecoratorException", NoSuch, Extracted, DictKeys(container.table))

\* With no fill value, the extractor of a declared column absent from the
\* table was invoked, the table holding another column.
C5_Witness ==
    /\ strategy = "extract_columns"
    /\ phase = "extracted"
    /\ self.fill_with = None
    /\ Extracted \notin DictKeys(container.table)
    /\ container.table # <<>>
    /\ ~IsOk(call.result)

\* C6: extract_columns expands n declared columns into n + 1 nodes: the base
\* node, then one node per column in declaration order, named by its column,
\* with the base node's name as its sole input (of the table type) and the
\* provider's column type; a (name, doc) column is documented by doc and a
\* bare name by the base node's documentation.
C6_ColumnNodes ==
    (strategy = "extract_columns" /\ phase \in {"expanded", "ran", "extracted"}) =>
        /\ Len(nodes) = Len(args.columns) + 1
        /\ nodes[1].name = fn.name
        /\ \A i \in DOMAIN args.columns :
            /\ nodes[i + 1].name = args.columns[i].items[1]
            /\ nodes[i + 1].input_types = <<<<fn.name, fn.returns>>>>
            /\ nodes[i + 1].typ = get_column_type_from_df_type(fn.returns).value
            /\ nodes[i + 1].doc_string =
                IF args.columns[i].isa = "tuple" THEN DocStr(<<args.columns[i].items[2]>>)
                ELSE fn.doc

\* A bare name declared after a (name, doc) pair was expanded.
C6_Witness ==
    /\ strategy = "extract_columns"
    /\ phase = "expanded"
    /\ Len(args.columns) = 2
    /\ args.columns[1].isa = "tuple"
    /\ args.columns[2].isa = "str"

(***************************************************************************)
(* Properties of format_doc_string and validate.                           *)
(***************************************************************************)
\* format_doc_string ran on the function's docstring.
Formatted == phase \in {"formatted", "formatted2"}

\* The declaration of the output format_doc_string ran for.
FormattedDeclaration == args[CHOOSE i \in DOMAIN args : args[i].name = docRun.output]

\* The names format_doc_string has a replacement for.
KnownKeys == {RESERVED_KWARG} \cup DictKeys(FormattedDeclaration.mapping)

BraceFree(s) == \A i \in DOMAIN s : s[i] \notin Braces

\* The places <<i, j>> of a placeholder t[i..j] = {key} of a template t that
\* holds no other brace.
Placeholders(t) ==
    {ij \in (DOMAIN t) \X (DOMAIN t) :
        /\ ij[1] + 1 < ij[2]
        /\ t[ij[1]] = "{"
        /\ t[ij[2]] = "}"
        /\ BraceFree(SubSeq(t, 1, ij[1] - 1))
        /\ BraceFree(SubSeq(t, ij[1] + 1, ij[2] - 1))
        /\ BraceFree(SubSeq(t, ij[2] + 1, Len(t)))}

\* The placeholders of the function's docstring whose key has no replacement.
UnknownPlaceholders ==
    {ij \in Placeholders(fn.doc.text) :
        LET key == SubSeq(fn.doc.text, ij[1] + 1, ij[2] - 1)
        IN  ~(Len(key) = 1 /\ key[1] \in KnownKeys)}

\* sub occurs in s
Occurs(sub, s) ==
    \E i \in 0..(Len(s) - Len(sub)) : SubSeq(s, i + 1, i + Len(sub)) = sub

NoMatchingKey == \A i \in DOMAIN fn.doc.text : fn.doc.text[i] \notin KnownKeys

\* The docstring holds no escaped brace, "{{" or "}}".
NoEscapedBrace ==
    \A i \in DOMAIN fn.doc.text :
        (i < Len(fn.doc.text) /\ fn.doc.text[i] \in Braces)
            => fn.doc.text[i + 1] # fn.doc.text[i]

\* C8 as claimed: for a template whose placeholders have no matching key,
\* formatting the result again returns the same string.
C8_Idempotent ==
    (phase = "formatted2" /\ fn.doc.kind = "str" /\ NoMatchingKey) =>
        docRun.second = docRun.first

\* C8 as amended: for a template whose placeholders have no matching key and
\* which holds no escaped brace, formatting the result again returns the same
\* string.
C8_IdempotentUnescaped ==
    (phase = "formatted2" /\ fn.doc.kind = "str" /\ NoMatchingKey /\ NoEscapedBrace) =>
        docRun.second = docRun.first

\* A template with a placeholder and no escaped brace was formatted twice.
C8_Witness ==
    /\ phase = "formatted2"
    /\ fn.doc.kind = "str"
    /\ FormattedDeclaration.doc.kind = "None"
    /\ NoMatchingKey
    /\ NoEscapedBrace
    /\ Placeholders(fn.doc.text) # {}

\* C9 as claimed: format_doc_string(None, output_name) is None for every
\* declared output, and for a template that is not None an output with an
\* override gets the override, unformatted.
C9_NoneStaysNone ==
    Formatted =>
        /\ fn.doc.kind = "None" => docRun.first = DocNone
        /\ (fn.doc.kind = "str" /\ FormattedDeclaration.doc.kind = "str") =>
                docRun.first = FormattedDeclaration.doc

\* C9 as amended: an output with an override gets the override, unformatted,
\* whatever the template, None included; format_doc_string(None, output_name)
\* is None for an output without an override.
C9_OverrideFirst ==
    Formatted =>
        /\ FormattedDeclaration.doc.kind = "str" => docRun.first = FormattedDeclaration.doc
        /\ (fn.doc.kind = "None" /\ FormattedDeclaration.doc.kind = "None") =>
                docRun.first = DocNone

\* format_doc_string(None, output_name) ran for an output with an override.
C9_Witness ==
    /\ phase = "formatted"
    /\ fn.doc.kind = "None"
    /\ FormattedDeclaration.doc.kind = "str"

\* C10: when output_name is a parameter of fn, validate(fn) raises
\* InvalidDecoratorException, and nothing else.
C10_ReservedRejected ==
    (/\ strategy = "parameterize"
     /\ RESERVED_KWARG \in Range(fn.params)
     /\ phase \notin {"declared", "constructed", "formatted", "formatted2"}) =>
        /\ phase = "failed"
        /\ error.type = "InvalidDecoratorException"

(***************************************************************************)
(* Properties of the protocol and of parameterize_extract_columns.         *)
(***************************************************************************)
\* The phases that follow a normal return of validate(fn).
AfterValidate ==
    {"validated", "expanded", "expand_failed", "invoked", "invoked_over", "ran", "extracted"}

\* The dependency mappings the decorator was given.
DeclaredMappings ==
    IF strategy = "parameterize" THEN {args[i].mapping : i \in DOMAIN args}
    ELSE IF strategy = "parameterize_extract_columns"
    THEN {args.extract_config[i].input_mapping : i \in DOMAIN args.extract_config}
    ELSE {}

\* The replacement_function that node k calls, for the nodes that have one:
\* the callable of a node of parameterize, and the one df_generator wraps in
\* an intermediate node.
Replacing(k) ==
    IF nodes[k].callabl.code = "replacement_function" THEN <<nodes[k].callabl>>
    ELSE IF nodes[k].callabl.code = "df_generator"
            /\ nodes[k].callabl.inner.code = "replacement_function"
    THEN <<nodes[k].callabl.inner>>
    ELSE <<>>

\* C11: a target parameter absent from fn's signature is rejected by
\* validate: once validate(fn) returned, every target of every declared
\* mapping is a parameter of fn, and every node expand returned binds only
\* parameters of fn.
C11_TargetsExist ==
    (phase \in AfterValidate) =>
        /\ \A m \in DeclaredMappings : DictKeys(m) \subseteq Range(fn.params)
        /\ \A k \in DOMAIN nodes : \A r \in Range(Replacing(k)) :
            DictKeys(r.upstream_dependencies) \cup DictKeys(r.literal_dependencies)
                \subseteq Range(fn.params)

\* A declared mapping holds a value that is no dependency.
HasRawValue ==
    \E m \in DeclaredMappings : \E j \in DOMAIN m : ~IsDependency(m[j][2])

\* C12: a mapping holding a value that is no dependency is rejected with the
\* configuration error at construction: the decoration never gets past its
\* construction, and expand_node raises no configuration error.
C12_RejectedAtConstruction ==
    /\ HasRawValue =>
        /\ phase \in {"declared", "failed"}
        /\ phase = "failed" =>
            /\ error.type = "InvalidDecoratorException"
            /\ error.what = "must specify a dependency type"
    /\ phase = "expand_failed" => error.type # "InvalidDecoratorException"

\* The name synthesized for the intermediate node of record i (from 0).
Synthesized(i) == fn.name \o "__" \o ToString(i)

\* The record whose intermediate node is node k.
RecordOf(k) ==
    args.extract_config[
        CHOOSE j \in DOMAIN args.extract_config : Synthesized(j - 1) = nodes[k].name]

\* The column labels of table t, in order.
Labels(t) == [j \in DOMAIN t |-> t[j][1]]

\* C13: the table an intermediate node produces is labelled by its record's
\* output names, in order, when reassign_columns is True, and by the labels
\* of the table the function returned when it is False.
C13_ReassignColumns ==
    (strategy = "parameterize_extract_columns" /\ phase = "ran") =>
        Labels(container.table) =
            IF self.reassign_columns
            THEN [j \in DOMAIN RecordOf(call.node).outputs |->
                     <<RecordOf(call.node).outputs[j]>>]
            ELSE Labels(fn.output)

\* The output names of all records, in record order.
RECURSIVE AllOutputs(_)
AllOutputs(extract_config) ==
    IF extract_config = <<>> THEN <<>>
    ELSE Head(extract_config).outputs \o AllOutputs(Tail(extract_config))

\* No element of the sequence s occurs twice.
Distinct(s) == \A i, j \in DOMAIN s : i # j => s[i] # s[j]

\* The names of the nodes due for the records from record i on: for each
\* record its synthesized name, then its output names.
RECURSIVE DueNames(_, _)
DueNames(extract_config, i) ==
    IF extract_config = <<>> THEN <<>>
    ELSE <<Synthesized(i)>> \o Head(extract_config).outputs
            \o DueNames(Tail(extract_config), i + 1)

\* The nodes are, record after record, the intermediate node under the
\* synthesized name and one column node per output, whose sole input is that
\* intermediate node; and no two nodes have the same name.
RecordNodesInOrder ==
    /\ [k \in DOMAIN nodes |-> nodes[k].name] = DueNames(args.extract_config, 0)
    /\ \A k \in DOMAIN nodes :
        IF k \in Intermediates
        THEN nodes[k].name \in
                {Synthesized(j - 1) : j \in DOMAIN args.extract_config}
        ELSE \E b \in Intermediates :
                /\ b < k
                /\ \A c \in Intermediates : c < k => c <= b
                /\ nodes[k].input_types = <<<<nodes[b].name, fn.returns>>>>
    /\ Distinct([k \in DOMAIN nodes |-> nodes[k].name])

\* expand_node of parameterize_extract_columns returned.
RecordsExpanded ==
    /\ strategy = "parameterize_extract_columns"
    /\ phase \in {"expanded", "ran", "extracted"}

C15_NoSharedMutation == held.table = fn.output

\* The labels the extractor was declared with.
DeclaredLabels ==
    IF strategy = "extract_columns"
    THEN {<<args.columns[i].items[1]>> : i \in DOMAIN args.columns}
    ELSE {args.fields[i][1] : i \in DOMAIN args.fields}

\* The value a fill leaves under a label: a column of the fill value, or the
\* fill value itself for a field.
Filled == IF strategy = "extract_columns" THEN [i \in 1..Rows |-> self.fill_with]
          ELSE self.fill_with

\* C16: in both extractors the base node fills exactly when fill_with is not
\* None, the falsy values included: its container holds what the function
\* returned, and, when fill_with is not None, the fill value under each
\* declared name the function did not return, and nothing else.
C16_FillDecision ==
    (strategy \in {"extract_columns", "extract_fields"} /\ phase = "ran") =>
        /\ DictKeys(container.table) =
            DictKeys(fn.output)
                \cup (IF self.fill_with # None THEN DeclaredLabels ELSE {})
        /\ \A l \in DictKeys(container.table) :
            DictGet(container.table, l) =
                IF l \in DictKeys(fn.output) THEN DictGet(fn.output, l) ELSE Filled

\* The name node k of an extractor was declared with.
DeclaredName(k) ==
    IF strategy = "extract_columns" THEN <<args.columns[k - 1].items[1]>>
    ELSE IF strategy = "extract_fields" THEN args.fields[k - 1][1]
    ELSE <<nodes[k].name>>

\* C17: the callable of a produced node works with its own output's
\* configuration. A node of parameterize that reaches fn passes its own
\* literals, also under a name the caller gave a value for, and the values
\* given under the names its own references name; a column or field node
\* extracts the name it was declared with; an intermediate node labels its
\* table with its own record's outputs and passes its own record's literals.
C17_OwnConfiguration ==
    /\ (strategy = "parameterize" /\ phase \in {"invoked", "invoked_over"}
            /\ IsOk(call.result)) =>
        /\ \A p \in DictKeys(LiteralOf(call.node)) :
            call.result.value.args[p] = DictGet(LiteralOf(call.node), p).value
        /\ \A p \in DictKeys(UpstreamOf(call.node)) :
            call.result.value.args[p] =
                call.kwargs[DictGet(UpstreamOf(call.node), p).source]
    /\ phase = "extracted" =>
        IF IsOk(call.result)
        THEN call.result.value = DictGet(container.table, DeclaredName(call.node))
        ELSE call.result.raised.subject = DeclaredName(call.node)
    /\ (strategy = "parameterize_extract_columns" /\ phase = "ran") =>
        /\ Labels(container.table) =
            [j \in DOMAIN RecordOf(call.node).outputs |->
                <<RecordOf(call.node).outputs[j]>>]
        /\ \A p \in DictKeys(DictFilter(RecordOf(call.node).input_mapping, "LITERAL")) :
            container.args[p] = DictGet(RecordOf(call.node).input_mapping, p).value

\* The first of several outputs that bind a parameter to different literals
\* was invoked, the caller giving a value under the parameter's name, and
\* reached fn.
C17_Witness ==
    /\ strategy = "parameterize"
    /\ phase = "invoked_over"
    /\ IsOk(call.result)
    /\ Len(nodes) >= 2
    /\ call.node = 1
    /\ \E p \in DictKeys(LiteralOf(1)) \cap DictKeys(LiteralOf(Len(nodes))) :
        /\ DictGet(LiteralOf(1), p).value # DictGet(LiteralOf(Len(nodes)), p).value
        /\ p \in DOMAIN call.kwargs

====
